---- MODULE Spec2Model ----
(***************************************************************************)
(* Trading alert server (mkultr44/larrsson): the persisted document of     *)
(* config.py (configured assets and last known state per asset), the       *)
(* check cycle of main.py and the notifier of email_notifier.py.           *)
(*                                                                         *)
(* Threads run the operations of the program step by step.  The steps of   *)
(* one operation are the places where the code touches the shared file     *)
(* state.json: load_data reads the whole document, save_data truncates     *)
(* the file (open(..., 'w')) and then writes the whole document.  No lock  *)
(* protects the file.                                                      *)
(*                                                                         *)
(* Spec     : the threads interleave freely.                               *)
(* SpecSeq  : the same actions, one operation at a time (an operation      *)
(*            runs from its call to its return before the next starts).    *)
(* SpecIndex, SpecOverlap : the market indexer of webapp.py alone, with    *)
(*            one refresh, or with refreshes started at any time.          *)
(* SpecIndicator, SpecSeries, SpecSignals : indicator.py alone: the        *)
(*            classification of rows of SMMA values, a fetched series      *)
(*            through calculate_larsson_line and detect_signals, and       *)
(*            detect_signals on any colour column.                         *)
(*                                                                         *)
(* Note on main.py:118: check_indicators calls update_asset_state with     *)
(* six positional arguments; config.py:77 defines it with four            *)
(* parameters.  Python raises TypeError at the call, before the body       *)
(* runs; the except clause of main.py:134 catches and logs it.  The        *)
(* model binds the call the way Python does (Binds).                       *)
(*                                                                         *)
(* Environment assumptions: the file system does not fail (save_data's     *)
(* except branch is not taken), nobody but the program edits state.json,   *)
(* and two overlapping writes leave the document of the later writer.      *)
(***************************************************************************)
EXTENDS Naturals, Sequences, FiniteSets, TLC

\* ------------------------------------------------------------------ bounds
MaxOps == 2          \* operations started in one behaviour
MaxPrice == 1        \* distinct closing prices
MaxCrashes == 1      \* process crashes (and restarts) in one behaviour
MarketsPer == 4      \* markets that one provider lists
MaxSearch == 2       \* searches in one behaviour
MaxLevel == 3        \* distinct values of a smoothed average
MaxBars == 1         \* rows of a data frame
MaxLen == 30         \* daily bars that a fetched series has
MaxColours == 4      \* rows of a colour column given to detect_signals

\* --------------------------------------------------------------- constants
None == "None"
Threads == {"t1", "t2"}
Web == {"t1"}        \* a Flask request thread: api_add_asset, api_delete_asset
Checkers == {"t2"}   \* the scheduler thread, or one started by trigger_check
Colors == {"orange", "silver", "navy"}
Prices == 1..MaxPrice
Changes == {0, 1}

DEFAULT_ASSETS ==
    << [exchange |-> "binance", symbol |-> "BTC/USDT"],
       [exchange |-> "hyperliquid", symbol |-> "HYPE/USDC:USDC"] >>

\* The instruments the operations are called with: the default ones and
\* two that a client of /api/add_asset may post (any two non-empty
\* strings are accepted), whose keys are the same string.
Instruments ==
    { DEFAULT_ASSETS[1], DEFAULT_ASSETS[2],
      [exchange |-> "yahoo", symbol |-> "X_Y"],
      [exchange |-> "yahoo_X", symbol |-> "Y"] }

\* key = f"{exchange}_{symbol}"
Key(exchange, symbol) == exchange \o "_" \o symbol

KeyOf(asset) == Key(asset.exchange, asset.symbol)

Keys == { KeyOf(a) : a \in Instruments }

VARIABLES
    CONFIG_FILE,   \* state.json: [content, assets, state]
    pc,            \* where each thread is
    fn,            \* the config.py function a thread is inside
    call,          \* arguments of that function call
    data,          \* the function's local `data` (the loaded document)
    prev,          \* update_asset_state's local previous_color
    ret,           \* result of the thread's last update_asset_state call
    cyc,           \* check_indicators' locals and what the cycle did
    mail,          \* notifications of check cycles: sent and failed, per key
    hist,          \* history of each key: calls, observations, commits
    ops,           \* operations started so far; also the logical time
    crashes,       \* process crashes so far
    sched,         \* "free": threads interleave; "seq": one operation at a
                   \* time; "index": the indexer alone, one refresh;
                   \* "overlap": the indexer alone, refreshes at any
                   \* time; "off": none of these runs
    markets,       \* indexer.markets: the snapshot that search reads
    is_loading,    \* indexer.is_loading
    lock,          \* indexer.lock: "free" or who holds it
    source,        \* which refresh published the snapshot ({}: none yet)
    worker,        \* the _index_worker threads: position and all_markets
    reader,        \* the thread that calls search, and what it got
    bar            \* the data frame of calculate_larsson_line and
                   \* detect_signals: [pc, df, rows, out, signal]

configVars == << CONFIG_FILE, pc, fn, call, data, prev, ret, cyc, mail, hist,
                 ops, crashes, sched >>

indexVars == << markets, is_loading, lock, source, worker, reader >>

vars == << configVars, indexVars, bar >>

\* ---------------------------------------------------------------- config.py
EmptyDoc == [assets |-> << >>, state |-> << >>]

FileMissing == [content |-> "missing", assets |-> << >>, state |-> << >>]

FileTruncated == [content |-> "partial", assets |-> << >>, state |-> << >>]

FileOf(d) == [content |-> "json", assets |-> d.assets, state |-> d.state]

\* load_data: the parsed document, or the defaults when the file does not
\* exist or does not parse (json.JSONDecodeError is swallowed).
load_data(f) ==
    IF f.content = "json"
    THEN [assets |-> f.assets, state |-> f.state]
    ELSE [assets |-> DEFAULT_ASSETS, state |-> << >>]

get_assets(f) == load_data(f).assets

\* Configured looking at the first asset only
Configured_FirstOnly(d, exchange, symbol) ==
    /\ Len(d.assets) > 0
    /\ d.assets[1].exchange = exchange /\ d.assets[1].symbol = symbol

\* for asset in data["assets"]: exchange and symbol both equal
Configured(d, exchange, symbol) ==
    \E i \in 1..Len(d.assets) :
        d.assets[i].exchange = exchange /\ d.assets[i].symbol = symbol

\* previous_color with the dashboard's default for a missing colour
previous_color_DefaultUnknown(d, key) ==
    IF key \in DOMAIN d.state THEN d.state[key].color ELSE "Unknown"

\* data["state"].get(key, {}).get("color")
previous_color(d, key) ==
    IF key \in DOMAIN d.state THEN d.state[key].color ELSE None

\* {"color": color, "price": price, "last_check": datetime.now().isoformat()}
StateEntry(color, price, now) ==
    [color |-> color, price |-> price, last_check |-> now]

\* data["state"][key] = entry
SetState(d, key, entry) ==
    [d EXCEPT !.state =
        [k \in (DOMAIN d.state) \cup {key} |->
            IF k = key THEN entry ELSE d.state[k]]]

\* ChangedFrom returning the new colour instead of the previous one
ChangedFrom_ReturnsNew(previous, color) ==
    IF previous # None /\ previous # color THEN color ELSE None

\* ChangedFrom without the comparison with the new colour
ChangedFrom_NoCompare(previous, color) ==
    IF previous # None THEN previous ELSE None

\* if previous_color is not None and previous_color != color: return it
ChangedFrom(previous, color) ==
    IF previous # None /\ previous # color THEN previous ELSE None

\* def update_asset_state(exchange, symbol, color, price)
update_asset_state_params == << "exchange", "symbol", "color", "price" >>

\* A call with positional arguments binds iff there is one per parameter
\* (no defaults, no *args); otherwise Python raises TypeError.
Binds(params, args) == Len(args) = Len(params)


\* ------------------------------------------------------- email_notifier.py
\* send_email: True when the SMTP transport accepted the message, False
\* when anything raised (the exception is caught and logged, never
\* propagated).
send_email(transport_ok) == transport_ok

Deliver(m, key, transport_ok) ==
    [m EXCEPT ![key] =
        IF send_email(transport_ok)
        THEN [@ EXCEPT !.sent = @ + 1]
        ELSE [@ EXCEPT !.failed = @ + 1]]

\* ------------------------------------------------------------------ main.py
\* What fetch_generic_daily + calculate_larsson_line give for one asset:
\* the last row's colour and close, the 24h change and the recent closes.
Observations ==
    [color : Colors, price : Prices, change_24h : Changes]

history_7d(obs) == << obs.price >>

\* update_asset_state(exchange, symbol, current_color, current_price,
\*                    change_24h, history_7d)
CheckCallArgs(asset, obs) ==
    << asset.exchange, asset.symbol, obs.color, obs.price,
       obs.change_24h, history_7d(obs) >>

\* if prev_color and prev_color != current_color
AlertDue(prev_color, current_color) ==
    prev_color # None /\ prev_color # "" /\ prev_color # current_color

\* --------------------------------------------------------------- the state
NoCall ==
    [op |-> "none", exchange |-> "", symbol |-> "", color |-> None,
     price |-> 0, pre |-> None, after |-> None, mailed |-> 0, listed |-> FALSE,
     file |-> FileMissing, owner |-> {}, done |-> FALSE]

\* check_indicators' locals (assets, idx) and the report of the cycle, per
\* key: the colour it classified (seen), the colour that was persisted when
\* it came to the asset (was), whether update_asset_state returned for it
\* (upd), the send_email calls it made (tried), the "Error processing"
\* lines it printed (log).
NoCycle ==
    [active |-> FALSE, finished |-> FALSE, assets |-> << >>, idx |-> 1,
     seen |-> [k \in Keys |-> None], was |-> [k \in Keys |-> None],
     upd |-> {}, tried |-> [k \in Keys |-> 0], log |-> [k \in Keys |-> 0]]

\* The history of a key: the colour of the last update_asset_state call
\* for it that returned (since the key was removed or the process started),
\* the colour the last check cycle classified for it, the transitions
\* between consecutive classifications, and whether update_asset_state was
\* ever called for it from outside a check cycle, and the instrument
\* whose update wrote the state persisted under the key (owner, a set of
\* at most one).
NoHist ==
    [called |-> None, seen |-> None, due |-> 0, direct |-> FALSE,
     owner |-> {}]

\* The colour state.json holds for a key (None when it holds none), read
\* off the file itself.
Persisted(key) ==
    IF CONFIG_FILE.content = "json" /\ key \in DOMAIN CONFIG_FILE.state
    THEN CONFIG_FILE.state[key].color
    ELSE None

\* Notifications attempted for a key by check cycles.
Attempts(key) == mail[key].sent + mail[key].failed

\* A state.json left by an earlier run of the program: the default assets
\* and the state that update_asset_state("binance", "BTC/USDT", "orange", 1)
\* wrote.
FileLeft ==
    FileOf([assets |-> DEFAULT_ASSETS,
            state |-> [k \in {KeyOf(DEFAULT_ASSETS[1])} |->
                         StateEntry("orange", 1, 0)]])

\* ================================================= webapp.py: MarketIndexer
\* Strings that search looks into are sequences of one-character strings,
\* so that upper() and `in` are computed, not assumed.
LowerCase ==
    << "a", "b", "c", "d", "e", "f", "g", "h", "i", "j", "k", "l", "m",
       "n", "o", "p", "q", "r", "s", "t", "u", "v", "w", "x", "y", "z" >>

UpperCase ==
    << "A", "B", "C", "D", "E", "F", "G", "H", "I", "J", "K", "L", "M",
       "N", "O", "P", "Q", "R", "S", "T", "U", "V", "W", "X", "Y", "Z" >>

\* str.upper(), one character
UpperChar(c) ==
    IF \E i \in 1..Len(LowerCase) : LowerCase[i] = c
    THEN UpperCase[CHOOSE i \in 1..Len(LowerCase) : LowerCase[i] = c]
    ELSE c

\* str.upper()
upper(s) == [i \in 1..Len(s) |-> UpperChar(s[i])]

\* Python's `q in s` for strings: q is a substring of s
Contains(q, s) ==
    \E i \in 0..Len(s) :
        i + Len(q) <= Len(s) /\ SubSeq(s, i + 1, i + Len(q)) = q

Entry(symbol, exchange, base, quote, type) ==
    [symbol |-> symbol, exchange |-> exchange, type |-> type,
     base |-> base, quote |-> quote]

\* self.curated_assets
curated_assets ==
    << Entry(<< "G", "C", "=", "F" >>, "yahoo", << "G", "o", "l", "d" >>, "USD", "future"),
       Entry(<< "S", "I", "=", "F" >>, "yahoo", << "S", "i", "l", "v", "e", "r" >>, "USD", "future"),
       Entry(<< "C", "L", "=", "F" >>, "yahoo", << "C", "r", "u", "d", "e", " ", "O", "i", "l" >>, "USD", "future"),
       Entry(<< "^", "G", "S", "P", "C" >>, "yahoo", << "S", "&", "P", " ", "5", "0", "0" >>, "USD", "index"),
       Entry(<< "^", "N", "D", "X" >>, "yahoo", << "N", "a", "s", "d", "a", "q", " ", "1", "0", "0" >>, "USD", "index"),
       Entry(<< "^", "D", "J", "I" >>, "yahoo", << "D", "o", "w", " ", "J", "o", "n", "e", "s" >>, "USD", "index"),
       Entry(<< "^", "G", "D", "A", "X", "I" >>, "yahoo", << "D", "A", "X" >>, "EUR", "index"),
       Entry(<< "N", "V", "D", "A" >>, "yahoo", << "N", "V", "I", "D", "I", "A" >>, "USD", "stock"),
       Entry(<< "T", "S", "L", "A" >>, "yahoo", << "T", "e", "s", "l", "a" >>, "USD", "stock"),
       Entry(<< "A", "A", "P", "L" >>, "yahoo", << "A", "p", "p", "l", "e" >>, "USD", "stock"),
       Entry(<< "M", "S", "F", "T" >>, "yahoo", << "M", "i", "c", "r", "o", "s", "o", "f", "t" >>, "USD", "stock"),
       Entry(<< "G", "O", "O", "G", "L" >>, "yahoo", << "G", "o", "o", "g", "l", "e" >>, "USD", "stock"),
       Entry(<< "A", "M", "Z", "N" >>, "yahoo", << "A", "m", "a", "z", "o", "n" >>, "USD", "stock"),
       Entry(<< "M", "E", "T", "A" >>, "yahoo", << "M", "e", "t", "a" >>, "USD", "stock"),
       Entry(<< "M", "S", "T", "R" >>, "yahoo", << "M", "i", "c", "r", "o", "S", "t", "r", "a", "t", "e", "g", "y" >>, "USD", "stock"),
       Entry(<< "C", "O", "I", "N" >>, "yahoo", << "C", "o", "i", "n", "b", "a", "s", "e" >>, "USD", "stock"),
       Entry(<< "E", "U", "R", "U", "S", "D", "=", "X" >>, "yahoo", << "E", "U", "R" >>, "USD", "forex") >>

\* self.exchanges_to_index
exchanges_to_index == << "binance", "bybit", "kraken", "coinbase", "okx" >>

\* exchanges = self.exchanges_to_index + ['hyperliquid']
exchanges == exchanges_to_index \o << "hyperliquid" >>

\* The bases of the markets a provider lists, all quoted in USDT.
Listed ==
    << << "B", "T", "C" >>, << "E", "T", "H" >>, << "S", "O", "L" >>,
       << "X", "R", "P" >>, << "A", "D", "A" >>, << "D", "O", "T" >> >>

\* exchange.load_markets(), flattened: one entry per market of the provider
load_markets(ex_name) ==
    [i \in 1..MarketsPer |->
        Entry(Listed[i] \o << "/", "U", "S", "D", "T" >>, ex_name,
              Listed[i], "USDT", "spot")]

\* What can happen to one provider in the loop of _index_worker: ccxt has
\* no such exchange (continue), its constructor raises, load_markets
\* raises, all goes well, or exchange.close() raises after the markets
\* were appended.
Outcomes == {"absent", "init_error", "load_error", "ok", "close_error"}

\* The entries a provider adds to all_markets
Contribution_FirstOnFailure(ex_name, outcome) ==
    IF outcome \in {"ok", "close_error"}
    THEN load_markets(ex_name)
    ELSE SubSeq(load_markets(ex_name), 1, 1)

Contribution(ex_name, outcome) ==
    IF outcome \in {"ok", "close_error"} THEN load_markets(ex_name) ELSE << >>

\* The result of a refresh in which exactly the providers of `ok` loaded:
\* the curated entries, then the markets of each of them in the order of
\* `exchanges`.
RECURSIVE Gathered(_, _)
Gathered(ok, n) ==
    IF n = 0 THEN curated_assets
    ELSE Gathered(ok, n - 1) \o
         (IF exchanges[n] \in ok THEN load_markets(exchanges[n]) ELSE << >>)

Complete(ok) == Gathered(ok, Len(exchanges))

\* The snapshot that a source stands for: {} is the initial empty list,
\* {ok} the result of a refresh in which the providers of ok loaded.
SnapshotOf(src) ==
    IF src = {} THEN << >> ELSE Complete(CHOOSE ok \in src : TRUE)

\* return [{"symbol": "Loading markets...", "exchange": "System", ...}]
Sentinel ==
    [symbol |-> "Loading markets...", exchange |-> "System",
     description |-> "Please wait"]

\* if not query: return []
EmptyQuery_Never(query) == FALSE

EmptyQuery(query) == query = << >>

\* if self.is_loading and not self.markets
IndexUnavailable_Never(loading, snapshot) == FALSE

IndexUnavailable_WhileLoading(loading, snapshot) == loading

IndexUnavailable(loading, snapshot) == loading /\ snapshot = << >>

\* if query in m['symbol'].upper() or query in m['base'].upper()
Matches(query, m) ==
    Contains(query, upper(m.symbol)) \/ Contains(query, upper(m.base))

\* if count >= 20: break
ResultCap == 20

\* The loop over self.markets: the entries that match, in scan order, up to
\* the cap (the loop breaks once count reaches it).
RECURSIVE Scan(_, _, _, _)
Scan(query, snapshot, i, results) ==
    IF i > Len(snapshot) \/ Len(results) >= ResultCap
    THEN results
    ELSE Scan(query, snapshot, i + 1,
              IF Matches(query, snapshot[i])
              THEN Append(results, snapshot[i]) ELSE results)

\* if count < 5 and len(query) > 1
ManualBelow == 5

ManualAllowed_Always(count, query) == Len(query) > 1

ManualAllowed(count, query) == count < ManualBelow /\ Len(query) > 1

Manual(query) ==
    [symbol |-> upper(query), exchange |-> "yahoo", type |-> "manual/stock",
     base |-> "Manual Search", quote |-> "?"]

\* search, from `with self.lock` on: query is already upper-cased and
\* not empty.
Locked(query, loading, snapshot) ==
    IF IndexUnavailable(loading, snapshot)
    THEN << Sentinel >>
    ELSE LET results == Scan(query, snapshot, 1, << >>)
         IN IF ManualAllowed(Len(results), query)
            THEN Append(results, Manual(query))
            ELSE results

\* self.markets = all_markets
Published_Extended(old, new) == old \o new

Published(old, new) == new

\* The queries that search is called with.
Queries ==
    { << >>, << "a" >>, << "u", "s" >>, << "o", "l", "d" >> }

Workers == {"w1", "w2"}

NoWorker == [pc |-> "idle", i |-> 1, all_markets |-> << >>, ok |-> {}]

\* The thread that calls search: where it is, how many calls it has made,
\* and of the last call, kept until the snapshot is replaced: whether it
\* has returned (done), the upper-cased query, the results, and what
\* is_loading was and whether a refresh was in progress when it read the
\* index.
NoSearch ==
    [pc |-> "idle", n |-> 0, done |-> FALSE, query |-> << >>,
     results |-> << >>, loading |-> FALSE, refreshing |-> FALSE]

\* indexer = MarketIndexer(): no markets, not loading, lock free
IndexOff ==
    /\ markets = << >>
    /\ is_loading = FALSE
    /\ lock = "free"
    /\ source = {}
    /\ worker = [w \in Workers |-> NoWorker]
    /\ reader = NoSearch


\* ============================================================== indicator.py
\* float('nan'): what smma leaves in the rows before its window is full.
\* The smoothed values proper are positive (prices are).
NaN == 0

Smoothed == {NaN} \cup (1..MaxLevel)

\* a < b on floats: False when either side is NaN
Less(a, b) == a # NaN /\ b # NaN /\ a < b

\* p2 = ((v1 < m1) != (v1 < v2)) | ((m2 < v2) != (v1 < v2))
P2(row) ==
    \/ Less(row.v1, row.m1) # Less(row.v1, row.v2)
    \/ Less(row.m2, row.v2) # Less(row.v1, row.v2)

\* p3 without the exclusion of the transition zone
P3_Unguarded(row) == Less(row.v1, row.v2)

\* p3 = (~p2) & (v1 < v2)
P3(row) == ~P2(row) /\ Less(row.v1, row.v2)

\* p1 = (~p2) & (~p3)
P1(row) == ~P2(row) /\ ~P3(row)

get_color(row_p1, row_p2, row_p3) ==
    IF row_p1 THEN "orange"
    ELSE IF row_p2 THEN "silver"
    ELSE "navy"

\* calculate_larsson_line from the four SMMA columns on: the flags and
\* the colour of every row.
Classified(rows) ==
    [i \in 1..Len(rows) |->
        [p1 |-> P1(rows[i]), p2 |-> P2(rows[i]), p3 |-> P3(rows[i]),
         color |-> get_color(P1(rows[i]), P2(rows[i]), P3(rows[i]))]]

Rows == [v1 : Smoothed, m1 : Smoothed, m2 : Smoothed, v2 : Smoothed]

RECURSIVE Series(_)
Series(n) ==
    IF n = 0 THEN { << >> }
    ELSE { Append(s, r) : s \in Series(n - 1), r \in Rows }

\* ---- smma
\* A float is kept in fixed point: Unit stands for 1.0 and a division
\* rounds down to a multiple of 1/Unit.  Prices are whole numbers.
Unit == 100000

\* the windows of v1, m1, m2, v2
Windows == [v1 |-> 15, m1 |-> 19, m2 |-> 25, v2 |-> 29]

\* hl2 = (df['high'] + df['low']) / 2
hl2(df) == [i \in 1..Len(df) |-> ((df[i].high + df[i].low) * Unit) \div 2]

RECURSIVE Sum(_, _)
Sum(series, n) == IF n = 0 THEN 0 ELSE Sum(series, n - 1) + series[n]

\* series.iloc[:length].mean(): the slice stops at the end of the series;
\* the mean of no values is NaN
mean(series, length) ==
    LET n == IF length < Len(series) THEN length ELSE Len(series)
    IN IF n = 0 THEN NaN ELSE Sum(series, n) \div n

\* result.iloc[length - 1] = sma_first raises IndexError when the series
\* has no position length - 1
OutOfBounds(series, length) == length - 1 >= Len(series)

\* for i in range(length, len(series)): result.iloc[i] = ...
\* (position i of Python is position i + 1 here)
RECURSIVE smma_loop(_, _, _, _)
smma_loop(series, length, i, result) ==
    IF i > Len(series) THEN result
    ELSE smma_loop(series, length, i + 1,
            Append(result,
                   (result[i - 1] * (length - 1) + series[i]) \div length))

\* smma of a series that has position length - 1: NaN before it, the mean
\* of the first `length` values at it, the recurrence after it
smma(series, length) ==
    smma_loop(series, length, length + 1,
              [i \in 1..length |->
                  IF i < length THEN NaN ELSE mean(series, length)])

\* v1, m1, m2, v2 of calculate_larsson_line, row by row
Columns(df) ==
    LET v1 == smma(hl2(df), Windows.v1)
        m1 == smma(hl2(df), Windows.m1)
        m2 == smma(hl2(df), Windows.m2)
        v2 == smma(hl2(df), Windows.v2)
    IN [i \in 1..Len(df) |->
           [v1 |-> v1[i], m1 |-> m1[i], m2 |-> m2[i], v2 |-> v2[i]]]

\* the daily bars that a fetch returns: one candle up to a turn, another
\* one after it
Candles ==
    { c \in [high : 1..MaxLevel, low : 1..MaxLevel] : c.low <= c.high }

Turned(n, k, c1, c2) == [i \in 1..n |-> IF i <= k THEN c1 ELSE c2]

\* ---- detect_signals
\* what shift(1) leaves in the first row, and pd.isna
NA == "NaN"

\* df['prev_color'] = df['color'].shift(1)
shift(color) ==
    [i \in 1..Len(color) |-> IF i = 1 THEN NA ELSE color[i - 1]]

\* the loop body without the pd.isna test
signal_at_NoIsna(color, prev_color) ==
    IF color = "orange" /\ prev_color # "orange" THEN "BUY"
    ELSE IF color = "navy" /\ prev_color # "navy" THEN "SELL"
    ELSE None

\* the body of the loop of detect_signals
signal_at(color, prev_color) ==
    IF prev_color = NA THEN None
    ELSE IF color = "orange" /\ prev_color # "orange" THEN "BUY"
    ELSE IF color = "navy" /\ prev_color # "navy" THEN "SELL"
    ELSE None

detect_signals(out) ==
    LET color == [i \in 1..Len(out) |-> out[i].color]
        prev_color == shift(color)
    IN [i \in 1..Len(out) |-> signal_at(color[i], prev_color[i])]

\* the row that calculate_larsson_line leaves for a colour
Coloured(c) ==
    [p1 |-> c = "orange", p2 |-> c = "silver", p3 |-> c = "navy",
     color |-> c]

RECURSIVE ColourColumns(_)
ColourColumns(n) ==
    IF n = 0 THEN { << >> }
    ELSE { Append(s, Coloured(c)) : s \in ColourColumns(n - 1), c \in Colors }

NoBar == [pc |-> "off", df |-> << >>, rows |-> << >>, out |-> << >>,
          signal |-> << >>]

\* No data frame is being classified.
BarOff == bar = NoBar


\* ------------------------------------------------------------ initial state
\* The process has just started: state.json does not exist yet (first run)
\* or is the one an earlier run left.
Boot ==
    /\ CONFIG_FILE \in {FileMissing, FileLeft}
    /\ pc = [t \in Threads |-> "idle"]
    /\ fn = [t \in Threads |-> "none"]
    /\ call = [t \in Threads |-> NoCall]
    /\ data = [t \in Threads |-> EmptyDoc]
    /\ prev = [t \in Threads |-> None]
    /\ ret = [t \in Threads |-> "none"]
    /\ cyc = [t \in Threads |-> NoCycle]
    /\ mail = [k \in Keys |-> [sent |-> 0, failed |-> 0]]
    /\ hist = [k \in Keys |->
                 [NoHist EXCEPT
                     !.direct = Persisted(k) # None,
                     !.owner = IF Persisted(k) # None
                               THEN {DEFAULT_ASSETS[1]} ELSE {}]]
    /\ ops = 0
    /\ crashes = 0

Init == Boot /\ sched = "free" /\ IndexOff /\ BarOff

InitSeq == Boot /\ sched = "seq" /\ IndexOff /\ BarOff

Running(t) == pc[t] # "idle"

\* datetime.now(): a logical clock, the number of operations started
datetime_now == ops

\* An idle thread may start an operation; when operations run one at a
\* time, only while no other thread is inside one.
MayStart(t) ==
    /\ pc[t] = "idle"
    /\ ops < MaxOps
    /\ sched = "seq" => \A u \in Threads \ {t} : ~Running(u)

\* The frame of a call: the function called (op), its arguments, and for
\* the record, as of the call: the colour persisted for the key (pre), the
\* colour of the last completed update of the key (after), the
\* notifications attempted for the key (mailed), for add_asset and
\* remove_asset state.json (file), for remove_asset the instrument whose
\* update wrote the state under the key (owner), and whether the
\* instrument is configured (listed);
\* done is set when add_asset or remove_asset returns.
Frame(op, exchange, symbol, color, price) ==
    [op |-> op, exchange |-> exchange, symbol |-> symbol, color |-> color,
     price |-> price,
     pre |-> Persisted(Key(exchange, symbol)),
     after |-> hist[Key(exchange, symbol)].called,
     mailed |-> Attempts(Key(exchange, symbol)),
     file |-> IF op = "update" THEN FileMissing ELSE CONFIG_FILE,
     owner |-> IF op = "remove" THEN hist[Key(exchange, symbol)].owner ELSE {},
     listed |-> Configured(load_data(CONFIG_FILE), exchange, symbol),
     done |-> FALSE]

\* When an operation starts, what is left of the operations that are over
\* (their arguments, results and cycle reports) is dropped.
Forget(f, blank) ==
    [u \in Threads |-> IF Running(u) THEN f[u] ELSE blank]

\* --------------------------------------------- update_asset_state, by steps
\* A direct call of update_asset_state(exchange, symbol, color, price).
CallUpdate(t, a, color, price) ==
    /\ MayStart(t)
    /\ ops' = ops + 1
    /\ fn' = [fn EXCEPT ![t] = "update"]
    /\ call' = [Forget(call, NoCall) EXCEPT
                    ![t] = Frame("update", a.exchange, a.symbol, color, price)]
    /\ pc' = [pc EXCEPT ![t] = "upd_load"]
    /\ ret' = [Forget(ret, "none") EXCEPT ![t] = "running"]
    /\ cyc' = Forget(cyc, NoCycle)
    /\ hist' = [hist EXCEPT ![KeyOf(a)].direct = TRUE]
    /\ UNCHANGED << CONFIG_FILE, data, prev, mail, crashes, sched, indexVars, bar >>

\* data = load_data(); previous_color = ...; data["state"][key] = {...}
UpdLoad(t) ==
    /\ pc[t] = "upd_load"
    /\ LET d == load_data(CONFIG_FILE)
           key == Key(call[t].exchange, call[t].symbol)
       IN /\ prev' = [prev EXCEPT ![t] = previous_color(d, key)]
          /\ data' = [data EXCEPT ![t] =
                SetState(d, key,
                         StateEntry(call[t].color, call[t].price,
                                    datetime_now))]
    /\ pc' = [pc EXCEPT ![t] = "save_open"]
    /\ UNCHANGED << CONFIG_FILE, fn, call, ret, cyc, mail, hist, ops,
                    crashes, sched, indexVars, bar >>

\* save_data: open(CONFIG_FILE, 'w') truncates the file
SaveOpen(t) ==
    /\ pc[t] = "save_open"
    /\ CONFIG_FILE' = FileTruncated
    /\ pc' = [pc EXCEPT ![t] = "save_write"]
    /\ UNCHANGED << fn, call, data, prev, ret, cyc, mail, hist, ops,
                    crashes, sched, indexVars, bar >>

\* What a committed write means for the history of the keys: the write
\* of a removal forgets the key.
Committed(h, f, c) ==
    CASE f = "remove" -> [h EXCEPT ![Key(c.exchange, c.symbol)] = NoHist]
      [] f = "update" ->
            [h EXCEPT ![Key(c.exchange, c.symbol)].owner =
                 {[exchange |-> c.exchange, symbol |-> c.symbol]}]
      [] OTHER -> h

\* save_data: json.dump(data, f) and close; add_asset and remove_asset
\* return after it, update_asset_state goes on to its comparison.
SaveWrite(t) ==
    /\ pc[t] = "save_write"
    /\ CONFIG_FILE' = FileOf(data[t])
    /\ hist' = Committed(hist, fn[t], call[t])
    /\ pc' = [pc EXCEPT ![t] = IF fn[t] = "update" THEN "upd_ret" ELSE "idle"]
    /\ fn' = [fn EXCEPT ![t] = IF fn[t] = "update" THEN "update" ELSE "none"]
    /\ data' = [data EXCEPT ![t] = IF fn[t] = "update" THEN @ ELSE EmptyDoc]
    /\ call' = [call EXCEPT ![t].done = (fn[t] # "update")]
    /\ UNCHANGED << prev, ret, cyc, mail, ops, crashes, sched, indexVars, bar >>

\* update_asset_state returns; inside check_indicators the caller goes on
\* with `if prev_color and prev_color != current_color: send_email(...)`
\* and then with the next asset.
UpdReturn(t) ==
    /\ pc[t] = "upd_ret"
    /\ LET key == Key(call[t].exchange, call[t].symbol)
           r == ChangedFrom(prev[t], call[t].color)
       IN /\ ret' = [ret EXCEPT ![t] = r]
          /\ hist' = [hist EXCEPT ![key].called = call[t].color]
          /\ IF cyc[t].active
             THEN /\ \E transport_ok \in BOOLEAN :
                        mail' = IF AlertDue(r, call[t].color)
                                THEN Deliver(mail, key, transport_ok)
                                ELSE mail
                  /\ cyc' = [cyc EXCEPT
                        ![t].idx = @ + 1,
                        ![t].upd = @ \cup {key},
                        ![t].tried[key] =
                            IF AlertDue(r, call[t].color) THEN @ + 1 ELSE @]
                  /\ pc' = [pc EXCEPT ![t] = "chk_loop"]
             ELSE /\ mail' = mail
                  /\ cyc' = cyc
                  /\ pc' = [pc EXCEPT ![t] = "idle"]
    /\ fn' = [fn EXCEPT ![t] = "none"]
    /\ data' = [data EXCEPT ![t] = EmptyDoc]
    /\ prev' = [prev EXCEPT ![t] = None]
    /\ UNCHANGED << CONFIG_FILE, call, ops, crashes, sched, indexVars, bar >>

\* ------------------------------------------------- add_asset, remove_asset
\* The start of add_asset or remove_asset (f) for the pair a.
CallConfig(t, f, a) ==
    /\ MayStart(t)
    /\ ops' = ops + 1
    /\ fn' = [fn EXCEPT ![t] = f]
    /\ call' = [Forget(call, NoCall) EXCEPT
                    ![t] = Frame(f, a.exchange, a.symbol, None, 0)]
    /\ ret' = Forget(ret, "none")
    /\ cyc' = Forget(cyc, NoCycle)
    /\ UNCHANGED << CONFIG_FILE, data, prev, mail, hist, crashes, sched, indexVars, bar >>

CallAdd(t, a) ==
    /\ CallConfig(t, "add", a)
    /\ pc' = [pc EXCEPT ![t] = "add_load"]

\* data = load_data(); return if the pair is there; else append it
AddLoad(t) ==
    /\ pc[t] = "add_load"
    /\ LET d == load_data(CONFIG_FILE)
           a == [exchange |-> call[t].exchange, symbol |-> call[t].symbol]
       IN IF Configured(d, a.exchange, a.symbol)
          THEN /\ pc' = [pc EXCEPT ![t] = "idle"]
               /\ fn' = [fn EXCEPT ![t] = "none"]
               /\ data' = data
               /\ call' = [call EXCEPT ![t].done = TRUE]
          ELSE /\ pc' = [pc EXCEPT ![t] = "save_open"]
               /\ fn' = fn
               /\ data' = [data EXCEPT ![t] =
                              [d EXCEPT !.assets = Append(@, a)]]
               /\ call' = call
    /\ UNCHANGED << CONFIG_FILE, prev, ret, cyc, mail, hist, ops,
                    crashes, sched, indexVars, bar >>

CallRemove(t, a) ==
    /\ CallConfig(t, "remove", a)
    /\ pc' = [pc EXCEPT ![t] = "rem_load"]

\* the assets without the pair, the state without its key
Removed(d, exchange, symbol) ==
    [assets |-> SelectSeq(d.assets,
                    LAMBDA x : ~(x.exchange = exchange /\ x.symbol = symbol)),
     state |-> [k \in (DOMAIN d.state) \ {Key(exchange, symbol)} |->
                    d.state[k]]]

RemLoad(t) ==
    /\ pc[t] = "rem_load"
    /\ data' = [data EXCEPT ![t] =
           Removed(load_data(CONFIG_FILE), call[t].exchange, call[t].symbol)]
    /\ pc' = [pc EXCEPT ![t] = "save_open"]
    /\ UNCHANGED << CONFIG_FILE, fn, call, prev, ret, cyc, mail, hist, ops,
                    crashes, sched, indexVars, bar >>

\* ------------------------------------------------ check_indicators, by steps
\* assets = get_assets()
CheckStart(t) ==
    /\ MayStart(t)
    /\ ops' = ops + 1
    /\ cyc' = [Forget(cyc, NoCycle) EXCEPT ![t] =
           [NoCycle EXCEPT !.active = TRUE,
                           !.assets = get_assets(CONFIG_FILE)]]
    /\ call' = Forget(call, NoCall)
    /\ ret' = Forget(ret, "none")
    /\ pc' = [pc EXCEPT ![t] = "chk_loop"]
    /\ UNCHANGED << CONFIG_FILE, fn, data, prev, mail, hist, crashes, sched, indexVars, bar >>

\* The history of a key after a cycle observed `color` for it: one more
\* transition is due when the colour differs from the one observed before.
Observed(h, key, color) ==
    [h EXCEPT ![key].seen = color,
              ![key].due = IF h[key].seen # None /\ h[key].seen # color
                           THEN @ + 1 ELSE @]

\* except Exception as e: print(f"Error processing ..."); next asset
Logged(c, key) ==
    [c EXCEPT !.log[key] = @ + 1, !.idx = @ + 1]

\* the cycle's record of the colour it classified for the key
Saw(c, key, color) ==
    [c EXCEPT !.seen[key] = color, !.was[key] = Persisted(key)]

\* One pass of the loop body up to the call of update_asset_state: fetch,
\* classify (either may raise), then the call, which raises TypeError
\* unless its arguments bind.
CheckAsset(t) ==
    /\ pc[t] = "chk_loop"
    /\ cyc[t].idx <= Len(cyc[t].assets)
    /\ LET a == cyc[t].assets[cyc[t].idx]
           key == KeyOf(a)
       IN \E outcome \in {"fetch_error", "classify_error", "ok"},
             obs \in Observations :
            IF outcome # "ok"
            THEN /\ cyc' = [cyc EXCEPT ![t] = Logged(@, key)]
                 /\ UNCHANGED << pc, fn, call, ret, hist >>
            ELSE /\ hist' = Observed(hist, key, obs.color)
                 /\ IF Binds(update_asset_state_params, CheckCallArgs(a, obs))
                    THEN /\ fn' = [fn EXCEPT ![t] = "update"]
                         /\ call' = [call EXCEPT ![t] =
                                Frame("update", a.exchange, a.symbol,
                                      obs.color, obs.price)]
                         /\ pc' = [pc EXCEPT ![t] = "upd_load"]
                         /\ ret' = [ret EXCEPT ![t] = "running"]
                         /\ cyc' = [cyc EXCEPT ![t] = Saw(@, key, obs.color)]
                    ELSE /\ cyc' = [cyc EXCEPT ![t] =
                                      Logged(Saw(@, key, obs.color), key)]
                         /\ UNCHANGED << pc, fn, call, ret >>
    /\ UNCHANGED << CONFIG_FILE, data, prev, mail, ops, crashes, sched, indexVars, bar >>

\* the loop is over
CheckEnd(t) ==
    /\ pc[t] = "chk_loop"
    /\ cyc[t].idx > Len(cyc[t].assets)
    /\ cyc' = [cyc EXCEPT ![t].active = FALSE, ![t].finished = TRUE]
    /\ pc' = [pc EXCEPT ![t] = "idle"]
    /\ UNCHANGED << CONFIG_FILE, fn, call, data, prev, ret, mail, hist, ops,
                    crashes, sched, indexVars, bar >>

\* ------------------------------------------------------------- the process
\* The process dies and is restarted: every thread is gone with its locals,
\* state.json stays as it is on disk.
Crash ==
    /\ crashes < MaxCrashes
    /\ \E t \in Threads : Running(t)
    /\ crashes' = crashes + 1
    /\ pc' = [t \in Threads |-> "idle"]
    /\ fn' = [t \in Threads |-> "none"]
    /\ ret' = [t \in Threads |->
                 IF ret[t] = "running" THEN "crashed" ELSE ret[t]]
    /\ cyc' = [t \in Threads |-> [cyc[t] EXCEPT !.active = FALSE]]
    /\ data' = [t \in Threads |-> EmptyDoc]
    /\ prev' = [t \in Threads |-> None]
    /\ hist' = [k \in Keys |-> [hist[k] EXCEPT !.called = None]]
    /\ UNCHANGED << CONFIG_FILE, call, mail, ops, sched, indexVars, bar >>

Next ==
    \/ \E t \in Threads, a \in Instruments, color \in Colors, price \in Prices :
          CallUpdate(t, a, color, price)
    \/ \E t \in Web, a \in Instruments : CallAdd(t, a)
    \/ \E t \in Web, a \in Instruments : CallRemove(t, a)
    \/ \E t \in Checkers : CheckStart(t)
    \/ \E t \in Threads :
          \/ UpdLoad(t)
          \/ SaveOpen(t)
          \/ SaveWrite(t)
          \/ UpdReturn(t)
          \/ AddLoad(t)
          \/ RemLoad(t)
          \/ CheckAsset(t)
          \/ CheckEnd(t)
    \/ Crash

\* The threads interleave freely.
Spec == Init /\ [][Next]_vars

\* One operation runs from its call to its return before the next starts.
SpecSeq == InitSeq /\ [][Next]_vars

\* A refresh is in progress: its thread was started and has not published.
Refreshing(w) == worker[w].pc \notin {"idle", "done"}

\* start_indexing: threading.Thread(target=self._index_worker).start()
start_indexing(w) ==
    /\ worker[w].pc = "idle"
    /\ sched = "index" => \A u \in Workers : worker[u].pc = "idle"
    /\ worker' = [worker EXCEPT ![w].pc = "start"]
    /\ UNCHANGED << markets, is_loading, lock, source, reader, configVars, bar >>

\* _index_worker: self.is_loading = True (no lock taken); all_markets = []
\* and all_markets.extend(self.curated_assets)
WorkerBegin(w) ==
    /\ worker[w].pc = "start"
    /\ is_loading' = TRUE
    /\ worker' = [worker EXCEPT ![w] =
                    [pc |-> "providers", i |-> 1,
                     all_markets |-> curated_assets, ok |-> {}]]
    /\ UNCHANGED << markets, lock, source, reader, configVars, bar >>

\* One pass of `for ex_name in exchanges`: whatever happens to the
\* provider, the loop goes on with the next one.
WorkerProvider(w) ==
    /\ worker[w].pc = "providers"
    /\ worker[w].i <= Len(exchanges)
    /\ \E outcome \in Outcomes :
         LET ex_name == exchanges[worker[w].i]
         IN /\ sched = "overlap" => outcome = "ok"
            /\ worker' = [worker EXCEPT
                  ![w].all_markets = @ \o Contribution(ex_name, outcome),
                  ![w].ok = IF outcome \in {"ok", "close_error"}
                            THEN @ \cup {ex_name} ELSE @,
                  ![w].i = @ + 1]
    /\ UNCHANGED << markets, is_loading, lock, source, reader, configVars, bar >>

\* with self.lock: (acquire; blocks while the lock is held)
WorkerLock(w) ==
    /\ worker[w].pc = "providers"
    /\ worker[w].i > Len(exchanges)
    /\ lock = "free"
    /\ lock' = w
    /\ worker' = [worker EXCEPT ![w].pc = "swap"]
    /\ UNCHANGED << markets, is_loading, source, reader, configVars, bar >>

\* self.markets = all_markets; self.is_loading = False; (release)
WorkerPublish(w) ==
    /\ worker[w].pc = "swap"
    /\ markets' = Published(markets, worker[w].all_markets)
    /\ source' = {worker[w].ok}
    /\ is_loading' = FALSE
    /\ lock' = "free"
    /\ worker' = [worker EXCEPT ![w].pc = "done", ![w].all_markets = << >>]
    /\ reader' = IF reader.pc = "idle"
                 THEN [NoSearch EXCEPT !.n = reader.n]
                 ELSE reader
    /\ UNCHANGED << configVars, bar >>

\* search(query): query = query.upper(); if not query: return []
SearchCall(q) ==
    /\ reader.pc = "idle"
    /\ reader.n < MaxSearch
    /\ reader' =
         IF EmptyQuery(upper(q))
         THEN [NoSearch EXCEPT !.n = reader.n + 1, !.done = TRUE,
                               !.loading = is_loading,
                               !.refreshing = \E w \in Workers : Refreshing(w)]
         ELSE [NoSearch EXCEPT !.n = reader.n + 1, !.pc = "lock",
                               !.query = upper(q)]
    /\ UNCHANGED << markets, is_loading, lock, source, worker, configVars, bar >>

\* with self.lock: (acquire; blocks while the lock is held)
SearchLock ==
    /\ reader.pc = "lock"
    /\ lock = "free"
    /\ lock' = "reader"
    /\ reader' = [reader EXCEPT !.pc = "scan"]
    /\ UNCHANGED << markets, is_loading, source, worker, configVars, bar >>

\* the body of `with self.lock` and the return (release)
SearchScan ==
    /\ reader.pc = "scan"
    /\ reader' = [reader EXCEPT
                    !.pc = "idle", !.done = TRUE,
                    !.results = Locked(reader.query, is_loading, markets),
                    !.loading = is_loading,
                    !.refreshing = \E w \in Workers : Refreshing(w)]
    /\ lock' = "free"
    /\ UNCHANGED << markets, is_loading, source, worker, configVars, bar >>

NextIndex ==
    \/ \E w \in Workers : start_indexing(w)
    \/ \E w \in Workers : WorkerBegin(w)
    \/ \E w \in Workers : WorkerProvider(w)
    \/ \E w \in Workers : WorkerLock(w)
    \/ \E w \in Workers : WorkerPublish(w)
    \/ \E q \in Queries : SearchCall(q)
    \/ SearchLock
    \/ SearchScan

\* The indexer alone: nothing of config.py or main.py runs.
IndexAlone ==
    /\ Boot
    /\ CONFIG_FILE = FileMissing
    /\ IndexOff
    /\ BarOff

\* start_indexing is called once, as create_app does; a provider may fail
\* in any way.
InitIndex == IndexAlone /\ sched = "index"

SpecIndex == InitIndex /\ [][NextIndex]_vars

\* start_indexing is called once per worker thread, at any time, also
\* while a refresh is in progress; the providers all answer.
InitOverlap == IndexAlone /\ sched = "overlap"

SpecOverlap == InitOverlap /\ [][NextIndex]_vars
\* A data frame with its SMMA columns, not classified yet.
InitIndicator ==
    /\ Boot
    /\ CONFIG_FILE = FileMissing
    /\ sched = "off"
    /\ IndexOff
    /\ \E n \in 1..MaxBars :
          bar \in [pc : {"rows"}, df : { << >> }, rows : Series(n),
                   out : { << >> }, signal : { << >> }]

\* df = calculate_larsson_line(df)
Classify ==
    /\ bar.pc = "rows"
    /\ bar' = [bar EXCEPT !.out = Classified(bar.rows), !.pc = "colors"]
    /\ UNCHANGED << configVars, indexVars >>

NextIndicator == Classify

SpecIndicator == InitIndicator /\ [][NextIndicator]_vars

\* ---- a fetched series goes through calculate_larsson_line and
\* detect_signals
IndicatorAlone ==
    /\ Boot
    /\ CONFIG_FILE = FileMissing
    /\ sched = "off"
    /\ IndexOff

InitSeries ==
    /\ IndicatorAlone
    /\ \E n \in 0..MaxLen : \E k \in 0..n : \E c1, c2 \in Candles :
          bar = [NoBar EXCEPT !.pc = "df", !.df = Turned(n, k, c1, c2)]

\* calculate_larsson_line(df): the four smma calls, the first of which
\* that has no position length - 1 raises; then the flags and colours
Calculate ==
    /\ bar.pc = "df"
    /\ IF \E c \in DOMAIN Windows : OutOfBounds(hl2(bar.df), Windows[c])
       THEN bar' = [bar EXCEPT !.pc = "IndexError"]
       ELSE bar' = [bar EXCEPT !.rows = Columns(bar.df),
                               !.out = Classified(Columns(bar.df)),
                               !.pc = "colors"]
    /\ UNCHANGED << configVars, indexVars >>

\* detect_signals(df)
Detect ==
    /\ bar.pc = "colors"
    /\ bar' = [bar EXCEPT !.signal = detect_signals(bar.out),
                          !.pc = "signals"]
    /\ UNCHANGED << configVars, indexVars >>

NextSeries == Calculate \/ Detect

SpecSeries == InitSeries /\ [][NextSeries]_vars

\* ---- detect_signals on any colour column
InitSignals ==
    /\ IndicatorAlone
    /\ \E n \in 0..MaxColours :
          bar \in [pc : {"colors"}, df : { << >> }, rows : { << >> },
                   out : ColourColumns(n), signal : { << >> }]

NextSignals == Detect

SpecSignals == InitSignals /\ [][NextSignals]_vars


\* ================================================================== claims
\* Thread t's last update_asset_state call has returned.
Returned(t) == ret[t] \notin {"none", "running", "crashed"}

CallKey(t) == Key(call[t].exchange, call[t].symbol)

\* C1: the first update ever made for a key (state.json holds no state for
\* it when the call is made) returns None, whatever colour is passed, and
\* no notification is attempted for the key by it.
C1_FirstUpdateNoEvent ==
    \A t \in Threads :
        (Returned(t) /\ call[t].pre = None) =>
            /\ ret[t] = None
            /\ Attempts(CallKey(t)) = call[t].mailed

\* A first update has returned, for each colour, and its state is persisted.
C1_Witness ==
    \E t \in Threads :
        /\ Returned(t)
        /\ call[t].pre = None
        /\ call[t].color = "navy"
        /\ Persisted(CallKey(t)) = "navy"

\* C2: an update of a key with colour A followed by an update of the same
\* key with a different colour B returns A on the second call (the event
\* carries old = A, new = B); whatever an update returns as old colour is
\* the colour that was persisted when the call was made, and differs from
\* the new one.
C2_ChangeReturnsOld ==
    \A t \in Threads :
        Returned(t) =>
            /\ (call[t].after # None /\ call[t].after # call[t].color)
                   => ret[t] = call[t].after
            /\ ret[t] # None
                   => (ret[t] = call[t].pre /\ ret[t] # call[t].color)

\* Bullish then Bearish: the second call has returned orange.
C2_Witness ==
    \E t \in Threads :
        /\ Returned(t)
        /\ call[t].after = "orange"
        /\ call[t].color = "navy"
        /\ ret[t] = "orange"
        /\ Persisted(CallKey(t)) = "navy"

\* C3: an update with the colour of the previous update of the key, or
\* with the colour that is already persisted, returns None and leaves that
\* colour persisted.
C3_SameColourNoEvent ==
    \A t \in Threads :
        (Returned(t) /\ (call[t].after = call[t].color
                          \/ call[t].pre = call[t].color)) =>
            /\ ret[t] = None
            /\ Persisted(CallKey(t)) = call[t].color

\* The same colour twice in a row on a key that started without state:
\* the second call has returned None.
C3_Witness ==
    \E t \in Threads :
        /\ Returned(t)
        /\ call[t].after = call[t].color
        /\ call[t].pre = call[t].color
        /\ KeyOf(DEFAULT_ASSETS[1]) # CallKey(t)
        /\ ret[t] = None


Idle == \A t \in Threads : ~Running(t)

\* The keys of the assets a cycle iterates over.
CycleKeys(t) == { KeyOf(cyc[t].assets[i]) : i \in 1..Len(cyc[t].assets) }

\* C4: notifications are emitted exactly once per transition: when the
\* check cycles of a crash-free run are over, the notifications attempted
\* for an instrument that only check cycles update are as many as the
\* cycles that classified a colour different from the one classified by
\* the cycle before.
C4_OneNotificationPerTransition ==
    (Idle /\ crashes = 0) =>
        \A k \in Keys : ~hist[k].direct => Attempts(k) = hist[k].due

\* C5: after an update for a key has returned, the persisted state of the
\* key holds the new colour, price, 24h change, recent closes and a
\* timestamp; and after a check cycle the persisted colour of each
\* instrument it classified is the colour it classified.
C5_UpdateWritesTheNewState ==
    /\ \A t \in Threads :
          Returned(t) =>
             /\ CONFIG_FILE.content = "json"
             /\ CallKey(t) \in DOMAIN CONFIG_FILE.state
             /\ DOMAIN CONFIG_FILE.state[CallKey(t)] =
                   {"color", "price", "change_24h", "history_7d", "last_check"}
             /\ CONFIG_FILE.state[CallKey(t)].color = call[t].color
             /\ CONFIG_FILE.state[CallKey(t)].price = call[t].price
    /\ \A t \in Threads :
          cyc[t].finished =>
             \A k \in CycleKeys(t) :
                cyc[t].seen[k] # None => Persisted(k) = cyc[t].seen[k]

\* C6: updates for the same key never race, so one change of colour yields
\* at most one transition event: two updates of the same key with the same
\* new colour that were in progress at the same time do not both return an
\* event.
C6_OneEventPerChange ==
    \A t1, t2 \in Threads :
        (/\ t1 # t2
         /\ Returned(t1) /\ Returned(t2)
         /\ CallKey(t1) = CallKey(t2)
         /\ call[t1].color = call[t2].color)
        => ~(ret[t1] # None /\ ret[t2] # None)

\* C7: updates for different keys are independent: when two updates of
\* different keys that were in progress at the same time have both
\* returned, the persisted state of each key has the colour of its update.
C7_NoLostUpdate ==
    \A t1, t2 \in Threads :
        (/\ t1 # t2
         /\ Returned(t1) /\ Returned(t2)
         /\ CallKey(t1) # CallKey(t2))
        => /\ Persisted(CallKey(t1)) = call[t1].color
           /\ Persisted(CallKey(t2)) = call[t2].color

C9_FailureIsolated ==
    \A t \in Threads :
        cyc[t].finished =>
            \A k \in CycleKeys(t) :
                IF cyc[t].seen[k] # None
                THEN /\ k \in cyc[t].upd
                     /\ Persisted(k) = cyc[t].seen[k]
                     /\ cyc[t].log[k] = 0
                ELSE cyc[t].log[k] = 1

Done(t, op) == call[t].op = op /\ call[t].done

CallPair(t) == [exchange |-> call[t].exchange, symbol |-> call[t].symbol]

\* C11: after remove_asset(exchange, symbol) has returned, the configured
\* set has no entry with that pair and the state mapping has no entry for
\* its key, while the other configured instruments are the same as loaded
\* by the call, in the same order, and the state that an update of another
\* instrument wrote is unchanged.
C11_RemovePurgesOnlyItsOwn ==
    \A t \in Threads :
        Done(t, "remove") =>
            LET d == load_data(call[t].file)
                now == load_data(CONFIG_FILE)
            IN /\ CONFIG_FILE.content = "json"
               /\ ~Configured(now, call[t].exchange, call[t].symbol)
               /\ CallKey(t) \notin DOMAIN now.state
               /\ now.assets =
                     SelectSeq(d.assets, LAMBDA x : x # CallPair(t))
               /\ \A a \in Instruments \ {CallPair(t)} :
                     (KeyOf(a) \in DOMAIN d.state /\ call[t].owner = {a}) =>
                        /\ KeyOf(a) \in DOMAIN now.state
                        /\ now.state[KeyOf(a)] = d.state[KeyOf(a)]


\* The pairs of a list of assets are all different.
Distinct(assets) ==
    \A i, j \in 1..Len(assets) : i # j => assets[i] # assets[j]

\* C12: the configured set never has two entries with the same (exchange,
\* symbol) pair, whatever add_asset and remove_asset calls were made one
\* after the other; and an add_asset for a pair that was configured when
\* it was called leaves state.json as it was.
C12_NoDuplicateAssets ==
    /\ Distinct(get_assets(CONFIG_FILE))
    /\ \A t \in Threads :
          (Done(t, "add")
             /\ \E i \in 1..Len(get_assets(call[t].file)) :
                   get_assets(call[t].file)[i] = CallPair(t))
          => CONFIG_FILE = call[t].file

C12_Witness ==
    \E t \in Threads :
        /\ Done(t, "add")
        /\ CallPair(t) = DEFAULT_ASSETS[2]
        /\ call[t].file.content = "json"
        /\ CONFIG_FILE = call[t].file
        /\ Len(CONFIG_FILE.assets) = 2


\* ------------------------------------------------------------ MarketIndexer
\* The last search has returned, for a query that was not empty.
Answered == reader.done /\ reader.query # << >>

\* The snapshot positions whose entry matches the query.
Hits(query) == { i \in 1..Len(markets) : Matches(query, markets[i]) }

\* C13: a search with a non-empty query that finds the index loading and
\* the snapshot empty returns exactly one entry, the sentinel.
C13_SentinelWhileLoading ==
    (Answered /\ reader.loading /\ markets = << >>)
        => reader.results = << Sentinel >>

\* the search has returned the sentinel while the refresh is still going
\* through the providers
C13_Witness ==
    /\ Answered
    /\ reader.loading /\ markets = << >>
    /\ reader.results = << Sentinel >>
    /\ \E w \in Workers : worker[w].pc = "providers" /\ worker[w].i = 3

\* C14: whatever the query and the state of the index, search returns at
\* most 20 entries, the manual entry included.
C14_ResultsCapped == reader.done => Len(reader.results) <= 20

\* more than 20 entries match a query that is long enough for a manual
\* entry
C14_Witness ==
    /\ Answered
    /\ Len(reader.query) > 1
    /\ Cardinality(Hits(reader.query)) > 20
    /\ Len(reader.results) = 20

\* C15: search("") returns the empty sequence, whether the index is
\* empty, loading or ready.
C15_EmptyQueryEmptyResult ==
    (reader.done /\ reader.query = << >>) => reader.results = << >>

C15_Witness ==
    /\ reader.done /\ reader.query = << >> /\ reader.results = << >>
    /\ reader.loading /\ markets = << >>
    /\ \E w \in Workers : worker[w].pc = "providers"

\* C16: the snapshot that search reads is the initial empty list or the
\* complete result of one finished refresh (the curated entries and all
\* the markets of each provider that loaded), never the list that a
\* refresh in progress is still building.
C16_SnapshotWhole ==
    /\ \/ markets = << >>
       \/ \E ok \in SUBSET { exchanges[n] : n \in 1..Len(exchanges) } :
             markets = Complete(ok)
    /\ markets = SnapshotOf(source)
    /\ \A w \in Workers :
          (worker[w].pc = "providers" /\ worker[w].i <= Len(exchanges))
              => markets # worker[w].all_markets

\* a search has answered from the published snapshot while another
\* refresh is half way through its providers
C16_Witness ==
    /\ Answered
    /\ markets # << >>
    /\ Len(reader.results) > 1
    /\ \E w \in Workers :
          /\ worker[w].pc = "providers" /\ worker[w].i = 4
          /\ Len(worker[w].all_markets) > Len(curated_assets)
          /\ \E u \in Workers : worker[u].pc = "done"

\* C17: the lock is not held by a refresh that is loading providers, and
\* a search that reads the index while a refresh is in progress and the
\* snapshot is not empty answers from that snapshot, not with the
\* sentinel.
C17_ReadersNotBlocked ==
    /\ \A w \in Workers : worker[w].pc = "providers" => lock # w
    /\ (Answered /\ reader.refreshing /\ markets # << >>)
          => /\ reader.results # << Sentinel >>
             /\ \A i \in 1..Len(reader.results) :
                   \/ reader.results[i] = Manual(reader.query)
                   \/ \E j \in Hits(reader.query) :
                         reader.results[i] = markets[j]

\* a search got entries of the previous snapshot while is_loading was set
\* by a refresh that has not published
C17_Witness ==
    /\ Answered
    /\ reader.refreshing /\ reader.loading
    /\ markets # << >>
    /\ Len(reader.results) = 20
    /\ \E w \in Workers : worker[w].pc = "providers"

\* The next statement of a worker thread.
WorkerStep(w) ==
    WorkerBegin(w) \/ WorkerProvider(w) \/ WorkerLock(w) \/ WorkerPublish(w)

\* C18: a refresh goes on to publish whichever providers fail: while it is
\* in progress its thread can take its next step (each step moves it
\* forward through the providers, of which there are six), or waits for
\* a lock whose holder can release it; once it has published, the snapshot
\* is the curated entries followed by the markets of exactly the providers
\* that loaded, none of a provider that failed, and the loading flag is
\* cleared.
C18_RefreshSurvivesFailures ==
    \A w \in Workers :
        /\ worker[w].i <= Len(exchanges) + 1
        /\ Refreshing(w) =>
              \/ ENABLED WorkerStep(w)
              \/ lock = "reader" /\ ENABLED SearchScan
              \/ lock \in Workers \ {w} /\ ENABLED WorkerPublish(lock)
        /\ worker[w].pc = "done" =>
              /\ markets = curated_assets \o
                    SelectSeq(markets, LAMBDA m : m.exchange \in worker[w].ok)
              /\ \A ex \in worker[w].ok :
                    \A k \in 1..MarketsPer :
                       \E i \in 1..Len(markets) :
                          markets[i] = load_markets(ex)[k]
              /\ Len(markets) =
                    Len(curated_assets) + MarketsPer * Cardinality(worker[w].ok)
              /\ ~is_loading

\* a refresh in which two providers loaded and four failed has published
C18_Witness ==
    \E w \in Workers :
        /\ worker[w].pc = "done"
        /\ worker[w].ok = {"kraken", "hyperliquid"}
        /\ Len(markets) = Len(curated_assets) + 2 * MarketsPer
        /\ ~is_loading

\* A refresh has set the loading flag and has not published yet.
Loading(w) == worker[w].pc \in {"providers", "swap"}

\* C19: the loading flag is true exactly while a refresh has begun and
\* not published, also when refreshes overlap, and when no refresh is in
\* progress after one has completed the snapshot is not empty.
C19_LoadingFlagFollowsRefresh ==
    /\ is_loading = (\E w \in Workers : Loading(w))
    /\ ((\E w \in Workers : worker[w].pc = "done") /\ ~is_loading)
          => markets # << >>

\* --------------------------------------------------------------- indicator
\* C20: every classified row has exactly one of the flags p1, p2, p3, and
\* its colour is orange iff p1, silver iff p2, navy iff p3.
C20_ExactlyOneFlag ==
    \A i \in 1..Len(bar.out) :
        LET r == bar.out[i]
        IN /\ Cardinality({ f \in {"p1", "p2", "p3"} : r[f] }) = 1
           /\ (r.color = "orange") = r.p1
           /\ (r.color = "silver") = r.p2
           /\ (r.color = "navy") = r.p3

\* a row on the boundaries v1 = v2 and v1 = m1 has been classified
C20_Witness ==
    /\ Len(bar.out) > 0
    /\ bar.rows[1].v1 = bar.rows[1].v2
    /\ bar.rows[1].v1 = bar.rows[1].m1
    /\ bar.rows[1].v1 # NaN
    /\ bar.rows[1].m2 < bar.rows[1].v2
    /\ bar.out[1].p2

\* C21: detect_signals gives BUY at a row exactly when its colour is orange
\* and the row before exists and is not orange, SELL exactly when its
\* colour is navy and the row before exists and is not navy; the first row
\* has no signal, and a column of one colour has no signal at all.
C21_SignalOnEdgesOnly ==
    bar.pc = "signals" =>
        LET color == [i \in 1..Len(bar.out) |-> bar.out[i].color]
        IN /\ Len(bar.signal) = Len(color)
           /\ \A i \in 1..Len(color) :
                 /\ (bar.signal[i] = "BUY") =
                       (color[i] = "orange" /\ i > 1 /\ color[i - 1] # "orange")
                 /\ (bar.signal[i] = "SELL") =
                       (color[i] = "navy" /\ i > 1 /\ color[i - 1] # "navy")
                 /\ bar.signal[i] \in {"BUY", "SELL", None}
           /\ Len(color) > 0 => bar.signal[1] = None
           /\ (\A i, j \in 1..Len(color) : color[i] = color[j])
                 => \A i \in 1..Len(color) : bar.signal[i] = None

\* a column that starts orange, turns navy and turns orange again has
\* been given its signals
C21_Witness ==
    /\ bar.pc = "signals"
    /\ Len(bar.out) >= 3
    /\ bar.out[1].color = "orange"
    /\ bar.signal[2] = "SELL"
    /\ bar.signal[3] = "BUY"

\* C22: a series of fewer than 30 bars is never classified:
\* calculate_larsson_line fails for it instead of giving colours.
C22_ShortSeriesNeverClassified ==
    Len(bar.df) < 30 => bar.pc \in {"df", "IndexError"}

\* all four SMMAs of the row are available
Available(row) ==
    row.v1 # NaN /\ row.m1 # NaN /\ row.m2 # NaN /\ row.v2 # NaN

\* C23: a row where at least one SMMA is not available yet gets none of
\* the colours, and so the first row that has all four has no signal.
C23_WarmupRowsHaveNoTrend ==
    /\ \A i \in 1..Len(bar.out) :
          ~Available(bar.rows[i]) =>
              ~(bar.out[i].p1 \/ bar.out[i].p2 \/ bar.out[i].p3)
    /\ bar.pc = "signals" =>
          \A i \in 1..Len(bar.signal) :
              (Available(bar.rows[i]) /\ (i = 1 \/ ~Available(bar.rows[i - 1])))
                  => bar.signal[i] = None

\* ------------------------------------------------- configured set and state
\* the keys of the instruments that document d has configured
ConfiguredKeys(d) == { KeyOf(d.assets[i]) : i \in 1..Len(d.assets) }

\* C24: state is persisted only for configured instruments, also when
\* remove_asset runs while a cycle that read the instrument list before
\* is still updating: after update_asset_state has returned for an
\* instrument that was configured when it was called, state.json holds
\* state under its key only if the instrument is still configured.
C24_StateOnlyForConfigured ==
    \A t \in Threads :
        ( /\ call[t].op = "update"
          /\ call[t].listed
          /\ Returned(t)
          /\ CONFIG_FILE.content = "json"
          /\ CallKey(t) \in DOMAIN CONFIG_FILE.state )
        => CallKey(t) \in ConfiguredKeys(CONFIG_FILE)

\* C25: after add_asset has returned for an instrument, and until
\* remove_asset is called for it, state.json has it configured, whatever
\* update_asset_state calls run at the same time; and after remove_asset
\* has returned for an instrument, and until add_asset is called for it,
\* state.json does not have it configured.  (state.json is looked at
\* when it holds a whole document.)
C25_AddedStaysRemovedStaysOut ==
    \A t \in Web :
        CONFIG_FILE.content = "json" =>
            /\ Done(t, "add") =>
                  Configured(load_data(CONFIG_FILE),
                             call[t].exchange, call[t].symbol)
            /\ Done(t, "remove") =>
                  ~Configured(load_data(CONFIG_FILE),
                              call[t].exchange, call[t].symbol)

====
